---- MODULE Spec2Model ----
(***************************************************************************)
(* scrapy_redis.spiders.RedisMixin: workers (spiders) that bind to a       *)
(* shared redis key (setup_redis), drain it in batches (next_requests)     *)
(* and refill on the engine's idle signal (spider_idle).                   *)
(***************************************************************************)
EXTENDS Integers, Sequences, FiniteSets, TLC

\* ------------------------------------------------------------ bounds
MaxItems == 3
MaxLog == 4
NumWorkers == 2

Workers == 1..NumWorkers
Items == 1..MaxItems

\* ------------------------------------------------------------ helpers
Min(a, b) == IF a <= b THEN a ELSE b

Range(s) == {s[i] : i \in 1..Len(s)}

\* elements of s at the 0-based positions lo..hi (empty when lo > hi)
Slice(s, lo, hi) == [i \in 1..(IF hi >= lo THEN hi - lo + 1 ELSE 0) |-> s[lo + i]]

Reverse(s) == [i \in 1..Len(s) |-> s[Len(s) + 1 - i]]

RECURSIVE Concat(_)
Concat(ss) == IF ss = <<>> THEN <<>> ELSE Head(ss) \o Concat(Tail(ss))

\* all orderings of the finite set S
RECURSIVE Perms(_)
Perms(S) == IF S = {} THEN {<<>>} ELSE UNION {{<<x>> \o p : p \in Perms(S \ {x})} : x \in S}

\* ------------------------------------------------------------ redis commands
\* redis index normalisation: a negative index counts from the end
NormStart(n, start) == IF start < 0 THEN (IF start + n < 0 THEN 0 ELSE start + n) ELSE start
NormStop(n, stop) == IF stop < 0 THEN stop + n ELSE (IF stop >= n THEN n - 1 ELSE stop)

\* LRANGE key start stop
LRange(list, start, stop) ==
    LET n == Len(list)
        lo == NormStart(n, start)
        hi == NormStop(n, stop)
    IN  IF lo > hi \/ lo >= n THEN <<>> ELSE Slice(list, lo, hi)

\* LTRIM key start stop: the list that is kept
LTrim(list, start, stop) ==
    LET n == Len(list)
        lo == NormStart(n, start)
        hi == NormStop(n, stop)
    IN  IF lo > hi \/ lo >= n THEN <<>> ELSE Slice(list, lo, hi)

\* the score a producer gives item i (ties happen)
Score(i) == (2 * i) % 3

\* sorted-set rank order: ascending by score, then by member
ZBefore(i, j) == Score(i) < Score(j) \/ (Score(i) = Score(j) /\ i < j)

\* ZADD on a sorted set kept as its ascending rank sequence
ZAdd(z, i) ==
    LET lower == SelectSeq(z, LAMBDA j : ZBefore(j, i))
        upper == SelectSeq(z, LAMBDA j : ZBefore(i, j))
    IN  lower \o <<i>> \o upper

\* ZREVRANGE key start stop: ranks counted from the highest score
ZRevRange(z, start, stop) == LRange(Reverse(z), start, stop)

\* ZREMRANGEBYRANK key start stop: the members that stay
ZRemRangeByRank(z, start, stop) ==
    LET n == Len(z)
        lo == NormStart(n, start)
        hi == NormStop(n, stop)
    IN  IF lo > hi \/ lo >= n THEN z ELSE Slice(z, 0, lo - 1) \o Slice(z, hi + 1, n - 1)

\* ------------------------------------------------------------ values
\* python values a batch size can hold: None, an int, or a str of characters
None == [t |-> "none", n |-> 0, s |-> <<>>]
IntV(k) == [t |-> "int", n |-> k, s |-> <<>>]
StrV(cs) == [t |-> "str", n |-> 0, s |-> cs]

Digits == {"0", "1", "2"}
DigitVal(c) == IF c = "0" THEN 0 ELSE IF c = "1" THEN 1 ELSE 2

RECURSIVE DigitsVal(_)
DigitsVal(cs) == IF cs = <<>> THEN 0 ELSE 10 * DigitsVal(SubSeq(cs, 1, Len(cs) - 1)) + DigitVal(cs[Len(cs)])

\* python int(v): [err, n]
PyInt(v) ==
    IF v.t = "none" THEN [err |-> "TypeError", n |-> 0]
    ELSE IF v.t = "int" THEN [err |-> "none", n |-> v.n]
    ELSE LET neg == v.s # <<>> /\ Head(v.s) = "-"
             ds == IF neg THEN Tail(v.s) ELSE v.s
         IN  IF ds = <<>> \/ ~(Range(ds) \subseteq Digits)
             THEN [err |-> "ValueError", n |-> 0]
             ELSE [err |-> "none", n |-> IF neg THEN 0 - DigitsVal(ds) ELSE DigitsVal(ds)]

\* a key (template) is a string of tokens: "n" is the placeholder %(name)s,
\* "s" a whitespace character, "c" any other character
NoKey == [set |-> FALSE, toks |-> <<>>]
Key(toks) == [set |-> TRUE, toks |-> toks]

\* template % {'name': name}
Substitute(toks, name) == Concat([i \in 1..Len(toks) |-> IF toks[i] = "n" THEN name ELSE <<toks[i]>>])

\* str.strip()
RECURSIVE LStrip(_)
LStrip(toks) == IF toks # <<>> /\ Head(toks) = "s" THEN LStrip(Tail(toks)) ELSE toks
Strip(toks) == Reverse(LStrip(Reverse(LStrip(toks))))

\* defaults.START_URLS_KEY = '%(name)s:start_urls', defaults.REDIS_ENCODING = 'utf-8'
DefaultStartUrlsKey == <<"n", "c">>
DefaultEncoding == "utf-8"

\* the key the producers push to
QueueKey == <<"c", "c">>

\* ------------------------------------------------------------ state
VARIABLES
    settings,     \* crawler.settings, the project settings every worker's crawler carries
    spider,       \* per worker: the RedisMixin instance attributes
    connections,  \* per worker: how often connection.from_settings was invoked for it
    signals,      \* per worker: how many spider_idle handlers are connected to the idle signal
    store,        \* the members under the queue key (list order, or ascending rank order)
    kind,         \* per item: how its bytes decode (make_request_from_data)
    pushed,       \* number of items the producers have pushed so far
    fetchLog,     \* concatenation of the results of all fetch_data calls, in order
    crawled,      \* the (unit, spider) pairs handed to engine.crawl or to the engine's start requests
    logged,       \* the items logged as "Request not made from data"
    last          \* the latest handler run and what it handed back to its caller

vars == <<settings, spider, connections, signals, store, kind,
          pushed, fetchLog, crawled, logged, last>>

\* ------------------------------------------------------------ setup_redis
\* settings.get(name, default)
SettingsGetKey(default) == IF settings.START_URLS_KEY.set THEN settings.START_URLS_KEY.toks ELSE default

\* settings.getint('REDIS_START_URLS_BATCH_SIZE', settings.getint('CONCURRENT_REQUESTS')):
\* the default is evaluated first, each getint is int(value)
SettingsGetBatchSize ==
    LET inner == PyInt(settings.CONCURRENT_REQUESTS)
    IN  IF inner.err # "none" THEN inner
        ELSE IF settings.REDIS_START_URLS_BATCH_SIZE.t = "none" THEN inner
        ELSE PyInt(settings.REDIS_START_URLS_BATCH_SIZE)

\* the "already bound" check left out
AlreadyBoundNever(s) == FALSE

\* line 29: the "already bound" check
AlreadyBound(s) == s.server # "None"

\* the emptiness check without strip()
KeyIsEmpty(toks) == toks = <<>>

\* line 50: not self.redis_key.strip()
KeyIsBlank(toks) == Strip(toks) = <<>>

\* the flags tested in the other order
SelectFetchDataZsetFirst ==
    IF settings.REDIS_START_URLS_AS_ZSET THEN "pop_priority_queue"
    ELSE IF settings.REDIS_START_URLS_AS_SET THEN "spop"
    ELSE "pop_list_queue"

\* lines 74-79: the pop strategy the flags select
SelectFetchData ==
    IF settings.REDIS_START_URLS_AS_SET THEN "spop"
    ELSE IF settings.REDIS_START_URLS_AS_ZSET THEN "pop_priority_queue"
    ELSE "pop_list_queue"

\* what one setup_redis call did: the attributes it leaves, the exception it raised,
\* the connections it opened (0 or 1), the idle handlers it connected (0 or 1)
Outcome(s, raised, opened, connected) ==
    [spider |-> s, raised |-> raised, opened |-> opened, connected |-> connected, early |-> FALSE]

\* lines 72-84, once key, batch size and encoding are resolved
SetupConnect(s) ==
    LET s1 == [s EXCEPT !.server = "conn"]
    IN  IF ~s.crawler THEN Outcome(s1, "AttributeError", 1, 0)
        ELSE Outcome([s1 EXCEPT !.fetch_data = SelectFetchData], "none", 1, 1)

\* lines 60-66
SetupCoerce(s) ==
    LET b == PyInt(s.redis_batch_size)
        s1 == [s EXCEPT !.redis_batch_size = IntV(b.n)]
        s2 == IF s1.redis_encoding = "None"
              THEN [s1 EXCEPT !.redis_encoding =
                       IF settings.REDIS_ENCODING = "None" THEN DefaultEncoding ELSE settings.REDIS_ENCODING]
              ELSE s1
    IN  IF b.err # "none" THEN Outcome(s, "ValueError", 0, 0) ELSE SetupConnect(s2)

\* lines 53-58
SetupBatchSize(s) ==
    IF s.redis_batch_size.t # "none" THEN SetupCoerce(s)
    ELSE LET g == SettingsGetBatchSize
         IN  IF g.err # "none" THEN Outcome(s, g.err, 0, 0)
             ELSE SetupCoerce([s EXCEPT !.redis_batch_size = IntV(g.n)])

\* lines 43-51
SetupKey(s) ==
    LET tmpl == IF s.redis_key.set THEN s.redis_key.toks ELSE SettingsGetKey(DefaultStartUrlsKey)
        s1 == [s EXCEPT !.redis_key = Key(Substitute(tmpl, s.name))]
    IN  IF KeyIsBlank(s1.redis_key.toks) THEN Outcome(s1, "ValueError", 0, 0) ELSE SetupBatchSize(s1)

\* setup_redis(crawler): arg says whether a crawler was passed
setup_redis(s, arg) ==
    IF AlreadyBound(s) THEN [Outcome(s, "none", 0, 0) EXCEPT !.early = TRUE]
    ELSE IF ~(arg \/ s.crawler) THEN Outcome(s, "ValueError", 0, 0)
    ELSE SetupKey(s)

\* ------------------------------------------------------------ fetch_data
Fetched(err, datas, st) == [err |-> err, datas |-> datas, store |-> st]

\* pop_list_queue: LRANGE then LTRIM in one MULTI/EXEC pipeline
pop_list_queue(st, batch_size) ==
    Fetched("none", LRange(st, 0, batch_size - 1), LTrim(st, batch_size, -1))

\* pop_priority_queue: ZREVRANGE then ZREMRANGEBYRANK in one MULTI/EXEC pipeline
pop_priority_queue(st, batch_size) ==
    Fetched("none", ZRevRange(st, 0, batch_size - 1), ZRemRangeByRank(st, 0 - batch_size, -1))

\* server.spop(key, count): removes up to count arbitrary members, in any order;
\* redis rejects a negative count
spop(st, count) ==
    IF count < 0 THEN {Fetched("ResponseError", <<>>, st)}
    ELSE UNION {{Fetched("none", p, SelectSeq(st, LAMBDA i : i \notin S)) : p \in Perms(S)} :
                  S \in {T \in SUBSET Range(st) : Cardinality(T) = Min(count, Len(st))}}

\* what is under the worker's key: the queue, or nothing when its key is another one
\* (nobody pushes to other keys)
KeyContent(s) == IF s.redis_key.toks = QueueKey THEN store ELSE <<>>

\* self.fetch_data(self.redis_key, self.redis_batch_size): every possible outcome;
\* the store may be unreachable at any call
fetch_data(s) ==
    LET st == KeyContent(s)
        b == s.redis_batch_size.n
        keep(f) == IF s.redis_key.toks = QueueKey THEN f ELSE [f EXCEPT !.store = store]
    IN  IF s.fetch_data = "unset" THEN {Fetched("AttributeError", <<>>, store)}
        ELSE {Fetched("ConnectionError", <<>>, store)} \cup
             (IF s.fetch_data = "spop" THEN {keep(f) : f \in spop(st, b)}
              ELSE IF s.fetch_data = "pop_priority_queue" THEN {keep(pop_priority_queue(st, b))}
              ELSE {keep(pop_list_queue(st, b))})

\* ------------------------------------------------------------ next_requests
\* bytes_to_str(data, encoding): latin-1 decodes any bytes, utf-8 rejects the bad ones
bytes_to_str(i, encoding) == IF kind[i] = "bad" /\ encoding # "latin-1" THEN "UnicodeDecodeError" ELSE "none"

\* a sequence of requests taken for a single request: only its first one is used
make_request_from_data_first(i, encoding) ==
    IF bytes_to_str(i, encoding) # "none" THEN [tag |-> "error", reqs |-> <<>>]
    ELSE IF kind[i] = "reject" THEN [tag |-> "none", reqs |-> <<>>]
    ELSE [tag |-> "single", reqs |-> <<<<i, 1>>>>]

\* make_request_from_data(data): an error, None, one request or a sequence of requests
make_request_from_data(i, encoding) ==
    IF bytes_to_str(i, encoding) # "none" THEN [tag |-> "error", reqs |-> <<>>]
    ELSE IF kind[i] = "reject" THEN [tag |-> "none", reqs |-> <<>>]
    ELSE IF kind[i] = "many" THEN [tag |-> "seq", reqs |-> <<<<i, 1>>, <<i, 2>>>>]
    ELSE [tag |-> "single", reqs |-> <<<<i, 1>>>>]

\* a decode error caught in the loop: the item is logged and the loop goes on
RECURSIVE next_requests_swallow(_, _)
next_requests_swallow(datas, encoding) ==
    IF datas = <<>> THEN [reqs |-> <<>>, notmade |-> <<>>, raised |-> "none", found |-> 0]
    ELSE LET r == make_request_from_data(Head(datas), encoding)
             rest == next_requests_swallow(Tail(datas), encoding)
         IN  IF r.tag \in {"error", "none"} THEN [rest EXCEPT !.notmade = <<Head(datas)>> \o @]
             ELSE IF r.tag = "seq" THEN [rest EXCEPT !.reqs = r.reqs \o @, !.found = Len(r.reqs) + @]
             ELSE [rest EXCEPT !.reqs = r.reqs \o @, !.found = 1 + @]

\* the loop left at the first item no request is made from
RECURSIVE next_requests_break(_, _)
next_requests_break(datas, encoding) ==
    IF datas = <<>> THEN [reqs |-> <<>>, notmade |-> <<>>, raised |-> "none", found |-> 0]
    ELSE LET r == make_request_from_data(Head(datas), encoding)
             rest == next_requests_break(Tail(datas), encoding)
         IN  IF r.tag = "error"
             THEN [reqs |-> <<>>, notmade |-> <<>>, raised |-> "UnicodeDecodeError", found |-> 0]
             ELSE IF r.tag = "none"
             THEN [reqs |-> <<>>, notmade |-> <<Head(datas)>>, raised |-> "none", found |-> 0]
             ELSE IF r.tag = "seq" THEN [rest EXCEPT !.reqs = r.reqs \o @, !.found = Len(r.reqs) + @]
             ELSE [rest EXCEPT !.reqs = r.reqs \o @, !.found = 1 + @]

\* the for loop of next_requests over datas, consumed to its end or to the first error:
\* the requests yielded, the items logged as not made, the error raised, and found,
\* the count the loop keeps for its "Read %s requests" message
RECURSIVE next_requests(_, _)
next_requests(datas, encoding) ==
    IF datas = <<>> THEN [reqs |-> <<>>, notmade |-> <<>>, raised |-> "none", found |-> 0]
    ELSE LET r == make_request_from_data(Head(datas), encoding)
             rest == next_requests(Tail(datas), encoding)
         IN  IF r.tag = "error"
             THEN [reqs |-> <<>>, notmade |-> <<>>, raised |-> "UnicodeDecodeError", found |-> 0]
             ELSE IF r.tag = "none" THEN [rest EXCEPT !.notmade = <<Head(datas)>> \o @]
             ELSE IF r.tag = "seq" THEN [rest EXCEPT !.reqs = r.reqs \o @, !.found = Len(r.reqs) + @]
             ELSE [rest EXCEPT !.reqs = r.reqs \o @, !.found = 1 + @]

\* ------------------------------------------------------------ initial states
\* how the bytes of an item decode: the producers push a url or undecodable bytes as
\* the odd items, a record of several urls or a malformed url as the even ones
Kinds(i) == IF i % 2 = 1 THEN {"url", "bad"} ELSE {"many", "reject"}

\* a spider instance as constructed: class attributes and no connection
NewSpider(name, crawler, key, batch, encoding) ==
    [name |-> name, crawler |-> crawler, redis_key |-> key, redis_batch_size |-> batch,
     redis_encoding |-> encoding, server |-> "None", fetch_data |-> "unset"]

\* what a handler hands back to its caller: the exception it raised ("none" when it
\* returned) and whether DontCloseSpider, the shutdown veto, was raised; early marks
\* a setup_redis call that returned at its "already bound" check; pops counts the pop
\* commands the handler sent to the store
Handled(op, raised, veto) ==
    [op |-> op, raised |-> raised, veto |-> veto, early |-> FALSE, pops |-> 0]

\* every worker runs the same spider class under the same project settings
InitWith(Classes, Settings) ==
    /\ settings \in Settings
    /\ \E c \in Classes : spider = [w \in Workers |-> c]
    /\ last = Handled("init", "none", FALSE)
    /\ connections = [w \in Workers |-> 0]
    /\ signals = [w \in Workers |-> 0]
    /\ store = <<>>
    /\ kind = [i \in Items |-> "unset"]
    /\ pushed = 0
    /\ fetchLog = <<>>
    /\ crawled = <<>>
    /\ logged = {}

\* the deployments the drain is checked under: the default key, the batch size from
\* the spider class (-1, 0 or 2) or from CONCURRENT_REQUESTS (1), any pop strategy
DrainClasses ==
    {NewSpider(<<"c">>, TRUE, NoKey, b, "None") : b \in {None, IntV(-1), IntV(0), IntV(2)}}

DrainSettings ==
    {s \in [START_URLS_KEY : {NoKey}, REDIS_START_URLS_BATCH_SIZE : {None},
            CONCURRENT_REQUESTS : {IntV(1)}, REDIS_START_URLS_AS_SET : BOOLEAN,
            REDIS_START_URLS_AS_ZSET : BOOLEAN, REDIS_ENCODING : {"None"}] :
        ~(s.REDIS_START_URLS_AS_SET /\ s.REDIS_START_URLS_AS_ZSET)}

Init == InitWith(DrainClasses, DrainSettings)

\* the configurations binding is checked under
BindClasses ==
    {NewSpider(name, crawler, key, batch, encoding) :
        name \in {<<"c">>, <<"s">>},
        crawler \in BOOLEAN,
        key \in {NoKey, Key(<<>>), Key(<<"s">>), Key(<<"n">>), Key(<<"n", "c">>)},
        batch \in {None, IntV(2), IntV(0), IntV(-1), StrV(<<"1">>), StrV(<<"x">>)},
        encoding \in {"None"}}

BindSettings ==
    [START_URLS_KEY : {NoKey, Key(<<"s">>)},
     REDIS_START_URLS_BATCH_SIZE : {None, IntV(0), StrV(<<"x">>)},
     CONCURRENT_REQUESTS : {IntV(1), IntV(0), None}, REDIS_START_URLS_AS_SET : BOOLEAN,
     REDIS_START_URLS_AS_ZSET : BOOLEAN, REDIS_ENCODING : {"None"}]

InitBind == InitWith(BindClasses, BindSettings)

\* ------------------------------------------------------------ actions
\* obj.setup_redis(crawler) / obj.setup_redis()
SetupRedis(w, arg) ==
    LET r == setup_redis(spider[w], arg)
    IN  /\ spider' = [spider EXCEPT ![w] = r.spider]
        /\ connections' = [connections EXCEPT ![w] = @ + r.opened]
        /\ signals' = [signals EXCEPT ![w] = @ + r.connected]
        /\ last' = [Handled("setup_redis", r.raised, FALSE) EXCEPT !.early = r.early]
        /\ UNCHANGED <<settings, store, kind, pushed, fetchLog, crawled, logged>>

\* the loop over the result f of the handler's last fetch, every request going to the
\* engine; pops is the number of fetch_data calls that reached the store
Drain(w, op, f, pops) ==
    LET d == IF f.err # "none" THEN [reqs |-> <<>>, notmade |-> <<>>, raised |-> f.err, found |-> 0]
             ELSE next_requests(f.datas, spider[w].redis_encoding)
    IN  /\ store' = f.store
        /\ fetchLog' = fetchLog \o f.datas
        /\ crawled' = crawled \o [k \in 1..Len(d.reqs) |-> <<d.reqs[k], w>>]
        /\ logged' = logged \cup Range(d.notmade)
        /\ last' = [Handled(op, d.raised, op = "spider_idle" /\ d.raised = "none")
                        EXCEPT !.pops = pops]

\* the number of pop commands one self.fetch_data(...) call sends: none when the
\* attribute is missing
Pops(s) == IF s.fetch_data = "unset" THEN 0 ELSE 1

\* a fetch that failed or came back empty is tried once more
schedule_next_requests_retry(w, op) ==
    \E f \in fetch_data(spider[w]) :
        IF f.err = "ConnectionError" \/ (f.err = "none" /\ f.datas = <<>>)
        THEN \E g \in fetch_data(spider[w]) : Drain(w, op, g, 2 * Pops(spider[w]))
        ELSE Drain(w, op, f, Pops(spider[w]))

\* schedule_next_requests: engine.crawl(req, spider=self) for each request of
\* next_requests, which calls self.fetch_data once, before its loop
schedule_next_requests(w, op) ==
    \E f \in fetch_data(spider[w]) : Drain(w, op, f, Pops(spider[w]))

\* the engine's idle signal reaches a connected handler: spider_idle
SpiderIdle(w) ==
    /\ signals[w] >= 1
    /\ Len(fetchLog) < MaxLog
    /\ schedule_next_requests(w, "spider_idle")
    /\ UNCHANGED <<settings, spider, connections, signals, kind, pushed>>

\* the engine consumes start_requests(), which is next_requests(), to its end
StartRequests(w) ==
    /\ Len(fetchLog) < MaxLog
    /\ schedule_next_requests(w, "start_requests")
    /\ UNCHANGED <<settings, spider, connections, signals, kind, pushed>>

\* the producers feed the queue with the command of the configured mode
QueueType ==
    IF settings.REDIS_START_URLS_AS_SET THEN "set"
    ELSE IF settings.REDIS_START_URLS_AS_ZSET THEN "zset"
    ELSE "list"

\* a producer adds the next item to the queue key (RPUSH, SADD or ZADD)
Push(k) ==
    /\ pushed < MaxItems
    /\ pushed' = pushed + 1
    /\ kind' = [kind EXCEPT ![pushed + 1] = k]
    /\ store' = IF QueueType = "zset" THEN ZAdd(store, pushed + 1) ELSE Append(store, pushed + 1)
    /\ last' = Handled("push", "none", FALSE)
    /\ UNCHANGED <<settings, spider, connections, signals, fetchLog, crawled, logged>>

Next ==
    \/ \E w \in Workers, arg \in BOOLEAN : SetupRedis(w, arg)
    \/ \E w \in Workers : SpiderIdle(w)
    \/ \E w \in Workers : StartRequests(w)
    \/ \E k \in Kinds(pushed + 1) : Push(k)

Spec == Init /\ [][Next]_vars

NextBind ==
    \/ \E w \in Workers, arg \in BOOLEAN : SetupRedis(w, arg)
    \/ \E w \in Workers : SpiderIdle(w)
    \/ \E w \in Workers : StartRequests(w)

SpecBind == InitBind /\ [][NextBind]_vars

\* an idle notification whose fetch reaches the store
IdleServed(w) == SpiderIdle(w) /\ last'.raised # "ConnectionError"

\* the engine keeps signalling idle to every connected handler, and the store does not
\* stay unreachable for ever
SpecLive == Init /\ [][Next]_vars /\ \A w \in Workers : WF_vars(IdleServed(w))

\* ------------------------------------------------------------ properties
\* worker w runs one fetch-and-drain: an idle notification or a start_requests call
Fetches(w) == SpiderIdle(w) \/ StartRequests(w)

\* the step's fetch_data call returned its items (it did not fail at the store)
FetchReturned == last'.raised \in {"none", "UnicodeDecodeError"}

\* the items the step's fetch_data call returned
Datas == SubSeq(fetchLog', Len(fetchLog) + 1, Len(fetchLog'))

\* the items whose requests reached the engine
Delivered == {crawled[k][1][1] : k \in 1..Len(crawled)}

\* the items that have left the store
Removed == (1..pushed) \ Range(store)

\* C1: no item is returned by two fetch calls, and once every pushed item has left
\* the store the items returned are exactly the items pushed
C1_AtMostOnce ==
    /\ \A i, j \in 1..Len(fetchLog) : i # j => fetchLog[i] # fetchLog[j]
    /\ store = <<>> => Range(fetchLog) = 1..pushed

\* C2: every item a fetch has returned is no longer in the store
C2_ReturnedIsRemoved == Range(fetchLog) \cap Range(store) = {}

\* C3: a fetch on a store of n items with batch size b returns exactly min(n, b) items
\* and leaves n - min(n, b)
C3_BatchCount ==
    [][\A w \in Workers : Fetches(w) /\ FetchReturned =>
          LET n == Len(store)
              b == spider[w].redis_batch_size.n
          IN  Len(Datas) = Min(n, b) /\ Len(store') = n - Min(n, b)]_vars

\* C4: in list mode the results of the successive fetches, followed by what is still
\* stored, are the items in the order they were pushed
C4_FifoOrder == QueueType = "list" => fetchLog \o store = [i \in 1..pushed |-> i]

\* C5: in priority mode a fetch returns the b highest-ranked members, highest first,
\* and removes from the store exactly the members it returned
C5_PriorityDescending ==
    [][\A w \in Workers : Fetches(w) /\ FetchReturned /\ QueueType = "zset" =>
          LET n == Len(store)
              b == spider[w].redis_batch_size.n
          IN  /\ Datas = [k \in 1..Min(n, b) |-> store[n + 1 - k]]
              /\ Range(store') = Range(store) \ Range(Datas)]_vars

\* C6: every idle notification ends with DontCloseSpider raised
C6_IdleAlwaysVetoes == last.op = "spider_idle" => last.veto

\* C7: every item that has left the store was handed to the engine or logged as rejected
C7_NoItemDropped == \A i \in Removed : i \in Delivered \/ i \in logged

\* C8: over any sequence of setup_redis calls on an instance the connection factory is
\* invoked at most once and the idle handler is connected at most once
C8_BindOnce == \A w \in Workers : connections[w] <= 1 /\ signals[w] <= 1

\* a setup_redis call has just returned at the "already bound" check of a worker that
\* holds its one connection and its one idle handler
C8_Witness ==
    /\ last.op = "setup_redis" /\ last.early
    /\ \A w \in Workers : spider[w].server # "None" => connections[w] = 1 /\ signals[w] = 1

\* the configuration of a call is faulty: no crawler argument and no crawler attribute,
\* a queue name that is empty or whitespace-only once the name is substituted, or a
\* batch size (instance value, else batch-size setting, else concurrency setting) that
\* is no integer
NoCrawler(s, arg) == ~arg /\ ~s.crawler
BlankName(s) ==
    LET tmpl == IF s.redis_key.set THEN s.redis_key.toks
                ELSE IF settings.START_URLS_KEY.set THEN settings.START_URLS_KEY.toks
                ELSE DefaultStartUrlsKey
    IN  \A k \in 1..Len(Substitute(tmpl, s.name)) : Substitute(tmpl, s.name)[k] = "s"
BadBatchSize(s) ==
    LET v == IF s.redis_batch_size.t # "none" THEN s.redis_batch_size
             ELSE IF settings.REDIS_START_URLS_BATCH_SIZE.t # "none" THEN settings.REDIS_START_URLS_BATCH_SIZE
             ELSE settings.CONCURRENT_REQUESTS
    IN  v.t = "none" \/ (v.t = "str" /\ PyInt(v).err # "none")
Misconfigured(s, arg) == NoCrawler(s, arg) \/ BlankName(s) \/ BadBatchSize(s)

\* C9: a setup_redis call that goes past the "already bound" check with a faulty
\* configuration raises an error and leaves the worker unbound: no connection opened,
\* no pop strategy selected, no idle handler connected
C9_MisconfiguredStaysUnbound ==
    [][\A w \in Workers, arg \in BOOLEAN :
          SetupRedis(w, arg) /\ spider[w].server = "None" /\ Misconfigured(spider[w], arg) =>
              /\ last'.raised \in {"ValueError", "TypeError"}
              /\ spider'[w].server = "None"
              /\ spider'[w].fetch_data = "unset"
              /\ connections' = connections
              /\ signals' = signals]_vars

\* setup_redis has just raised ValueError on a worker whose queue name is only the
\* placeholder and whose name is whitespace, and the worker is unbound
C9_Witness ==
    /\ last.op = "setup_redis" /\ last.raised = "ValueError"
    /\ \E w \in Workers :
          /\ spider[w].redis_key = Key(<<"s">>) /\ spider[w].name = <<"s">>
          /\ spider[w].server = "None" /\ spider[w].fetch_data = "unset"
          /\ connections[w] = 0 /\ signals[w] = 0

\* C10: a bound worker's batch size is an integer >= 1
C10_PositiveBatch ==
    \A w \in Workers : spider[w].server # "None" =>
        spider[w].redis_batch_size.t = "int" /\ spider[w].redis_batch_size.n >= 1

\* C11: a drain by a bound worker against an empty, reachable store returns nothing,
\* raises no error, hands nothing to the engine and leaves the store empty
C11_EmptyDrainNoop ==
    [][\A w \in Workers :
          /\ Fetches(w)
          /\ spider[w].fetch_data # "unset"
          /\ KeyContent(spider[w]) = <<>>
          /\ last'.raised # "ConnectionError"
          => /\ last'.raised = "none"
             /\ Datas = <<>>
             /\ crawled' = crawled
             /\ store' = store]_vars

\* C12: once a worker is bound and keeps being notified idle, every item present in
\* the store is eventually removed from it and handed to an engine
C12_RefillLiveness ==
    \A i \in Items :
        (i \in Range(store) /\ \E w \in Workers : signals[w] >= 1)
            ~> (i \notin Range(store) /\ i \in Delivered)

\* the strategy the two flags stand for: the set flag wins over the priority flag
FlagStrategy ==
    CASE settings.REDIS_START_URLS_AS_SET /\ settings.REDIS_START_URLS_AS_ZSET -> "spop"
      [] settings.REDIS_START_URLS_AS_SET /\ ~settings.REDIS_START_URLS_AS_ZSET -> "spop"
      [] ~settings.REDIS_START_URLS_AS_SET /\ settings.REDIS_START_URLS_AS_ZSET -> "pop_priority_queue"
      [] OTHER -> "pop_list_queue"

\* C13: the pop strategy a worker gets is the one the flags stand for (the set flag
\* first), it is selected by the binding call only, and no later step changes it
C13_StrategyChosenOnce ==
    [][\A w \in Workers :
          /\ spider'[w].fetch_data # "unset" => spider'[w].fetch_data = FlagStrategy
          /\ spider[w].fetch_data # "unset" => spider'[w].fetch_data = spider[w].fetch_data
          /\ spider'[w].fetch_data # spider[w].fetch_data
                => last'.op = "setup_redis" /\ last'.raised = "none" /\ ~last'.early]_vars

\* both flags set, the worker bound with the unordered-set strategy and fetching with it
C13_Witness ==
    /\ settings.REDIS_START_URLS_AS_SET /\ settings.REDIS_START_URLS_AS_ZSET
    /\ \E w \in Workers : spider[w].fetch_data = "spop" /\ signals[w] = 1
    /\ last.op = "spider_idle" /\ last.raised = "none"

\* the work units an item decodes to: none for a rejected item, one for a url, each
\* of them in order for a record of several urls
UnitsOf(i) ==
    CASE kind[i] = "reject" -> <<>>
      [] kind[i] = "many" -> <<<<i, 1>>, <<i, 2>>>>
      [] OTHER -> <<<<i, 1>>>>

\* the (unit, originator) pairs the step handed to the engine
Handed == SubSeq(crawled', Len(crawled) + 1, Len(crawled'))

\* the units of the items datas, in order, each with worker w as its originator
UnitsFrom(datas, w) ==
    LET us == Concat([k \in 1..Len(datas) |-> UnitsOf(datas[k])])
    IN  [k \in 1..Len(us) |-> <<us[k], w>>]

\* C14: an idle notification whose items all decode hands the engine exactly the units
\* of the fetched items, in fetch order, each once, with this worker as originator, and
\* the count of the session is the number of units handed over
C14_UnitsInOrder ==
    [][last'.op = "spider_idle" /\ last'.raised = "none"
          => \E w \in Workers :
                /\ \A k \in 1..Len(Handed) : Handed[k][2] = w
                /\ SpiderIdle(w)
                /\ Handed = UnitsFrom(Datas, w)
                /\ \A j, k \in 1..Len(Handed) : Handed[j] = Handed[k] => j = k
                /\ next_requests(Datas, spider[w].redis_encoding).found = Len(Handed)]_vars

\* worker 1 was notified idle and a url and a record of two urls reached the engine,
\* in that order
C14_Witness ==
    /\ last.op = "spider_idle" /\ last.raised = "none"
    /\ kind[1] = "url" /\ kind[2] = "many"
    /\ fetchLog = <<1, 2>>
    /\ crawled = <<<<<<1, 1>>, 1>>, <<<<2, 1>>, 1>>, <<<<2, 2>>, 1>>>>

\* the item is one no request is made from
IsRejected(i) == kind[i] = "reject"
IsAccepted(i) == kind[i] # "reject"

\* C15: a drain whose batch holds a rejected item, at any position, and no undecodable
\* one ends without error, logs the rejected items and hands over the units of all the
\* other items of the batch, in order
C15_RejectedDoesNotAbort ==
    [][\A w \in Workers :
          /\ FetchReturned
          /\ \E k \in 1..Len(Datas) : IsRejected(Datas[k])
          /\ \A k \in 1..Len(Datas) : kind[Datas[k]] # "bad"
          /\ Fetches(w)
          => /\ last'.raised = "none"
             /\ Handed = UnitsFrom(SelectSeq(Datas, IsAccepted), w)
             /\ Range(SelectSeq(Datas, IsRejected)) \subseteq logged']_vars

\* one batch of the set held a rejected item first and a url behind it: the rejected
\* item is logged and the url reached the engine
C15_Witness ==
    /\ last.op \in {"spider_idle", "start_requests"} /\ last.raised = "none"
    /\ kind[2] = "reject" /\ kind[1] = "url"
    /\ fetchLog = <<2, 1>>
    /\ logged = {2}
    /\ \E w \in Workers : crawled = <<<<<<1, 1>>, w>>>>

\* the position of the first undecodable item of datas
FirstBad(datas) ==
    CHOOSE k \in 1..Len(datas) : kind[datas[k]] = "bad" /\ \A j \in 1..(k - 1) : kind[datas[j]] # "bad"

\* C16: a drain whose batch holds an undecodable item ends with the decode error at
\* its caller; the units of the items in front of the failing one are handed over and
\* stay so, no unit of the failing item or of a later item of the batch is handed over
C16_DecodeFailureIsFatal ==
    [][\A w \in Workers :
          /\ FetchReturned
          /\ \E k \in 1..Len(Datas) : kind[Datas[k]] = "bad"
          /\ Fetches(w)
          => /\ last'.raised = "UnicodeDecodeError"
             /\ SubSeq(crawled', 1, Len(crawled)) = crawled
             /\ Handed = UnitsFrom(SubSeq(Datas, 1, FirstBad(Datas) - 1), w)]_vars

\* one batch of the set held a record of two urls and undecodable bytes behind it: the
\* two urls reached the engine and the drain ended with the decode error
C16_Witness ==
    /\ last.op \in {"spider_idle", "start_requests"} /\ last.raised = "UnicodeDecodeError"
    /\ kind[2] = "many" /\ kind[1] = "bad"
    /\ fetchLog = <<2, 1>>
    /\ \E w \in Workers : crawled = <<<<<<2, 1>>, w>>, <<<<2, 2>>, w>>>>

\* the errors a pop command ends with
StoreErrors == {"ConnectionError", "ResponseError"}

\* C17: an idle notification or a consumed drain that got as far as its fetch (the
\* worker has a pop strategy) sends exactly one pop to the store, whatever it returns;
\* its effect on the store is that of this one pop of a bound worker, and when the pop
\* fails the error is at the caller with nothing else done
C17_SingleFetch ==
    [][last'.op \in {"spider_idle", "start_requests"} /\ last'.raised # "AttributeError"
          => /\ last'.pops = 1
             /\ \E w \in Workers :
                   /\ spider[w].fetch_data # "unset"
                   /\ \E f \in fetch_data(spider[w]) :
                         /\ f.store = store' /\ f.datas = Datas
                         /\ last'.raised \in StoreErrors => f.err = last'.raised
             /\ last'.raised \in StoreErrors
                   => store' = store /\ Datas = <<>> /\ crawled' = crawled]_vars

\* an idle notification found the store unreachable while items were waiting, and
\* ended after its one attempt
C17_Witness ==
    /\ last.op = "spider_idle" /\ last.raised = "ConnectionError" /\ last.pops = 1
    /\ store # <<>>
    /\ fetchLog = <<>>

\* C18: once setup_redis has succeeded for a worker, no drain, idle notification or
\* further setup_redis call changes its key, batch size, encoding, connection or pop
\* strategy, and no further connection is obtained for it
C18_DescriptorImmutable ==
    [][\A w \in Workers :
          spider[w].fetch_data # "unset"
          => /\ spider'[w] = spider[w]
             /\ connections'[w] = connections[w]
             /\ signals'[w] = signals[w]]_vars

\* a worker bound under the key its name was substituted into, with a batch size
\* coerced from a string, was handed to setup_redis again
C18_Witness ==
    /\ last.op = "setup_redis" /\ last.early
    /\ \A w \in Workers :
          /\ spider[w].fetch_data # "unset"
          /\ spider[w].name = <<"s">>
          /\ spider[w].redis_key = Key(<<"s", "c">>)
          /\ spider[w].redis_batch_size = IntV(1)
          /\ connections[w] = 1

\* C19: in every reachable state, also after a setup_redis call that failed part-way,
\* a worker whose server is set has its pop strategy selected and its idle callback
\* registered
C19_BindAllOrNothing ==
    \A w \in Workers :
        spider[w].server # "None" => spider[w].fetch_data # "unset" /\ signals[w] >= 1

\* how often item i occurs in the results of the fetches so far
TimesFetched(i) == Cardinality({k \in 1..Len(fetchLog) : fetchLog[k] = i})

\* C20: with producers pushing while workers fetch, every pushed item is at all times
\* either still in the store or in the result of exactly one fetch, never both, never
\* neither
C20_Conservation ==
    \A i \in 1..pushed :
        \/ i \in Range(store) /\ TimesFetched(i) = 0
        \/ i \notin Range(store) /\ TimesFetched(i) = 1

====
